---------------------------- MODULE Spec2Model ----------------------------
(***************************************************************************)
(* Model of the SQL permission validator of tansive/tansive:               *)
(*   examples/skillset_scripts/validate_sql.py      (command line tool)    *)
(*   examples/skillset_scripts/validate_sql_uds.py  (unix-socket service)  *)
(*                                                                         *)
(* A Python string is a sequence of one-character strings, so that         *)
(* lower(), split("."), strip('"') and sorted() are computed character by  *)
(* character.  Literal text that the program only ever copies (messages)   *)
(* is kept as a one-element sequence holding the whole text.               *)
(***************************************************************************)
EXTENDS Naturals, Sequences, FiniteSets

VARIABLES
    mode,             \* "cli" (validate_sql.py) or "uds" (validate_sql_uds.py)
    pc,               \* position of the run: start, decoded, fetched, test, done
    self_test,        \* cli: "--test" is among the arguments of the command
    input_is_dict,    \* inputArgs of the request is a JSON object
    has_sql,          \* inputArgs carries a non-empty "sql"
    summary,          \* self-test: (passed, expected, actual) of the cases run
    statements,       \* what sqlglot.parse(sql) gives for the request's sql
    sql_permissions,  \* the value get_context returned
    stmts,            \* process(): the descriptors of extract_sql_info_multi
    details,          \* process(): details
    denied,           \* process(): denied
    deny_reason,      \* process(): deny_reason
    invoked,          \* process() has been called for this request
    exit_code,        \* cli: <<the exit code>> of the process, <<>> while it runs
    http_status,      \* uds: <<the status>> of the response, <<>> while there is none
    output            \* what went to the success channel (stdout / 200 body)

vars == <<mode, pc, self_test, input_is_dict, has_sql, summary, statements,
          sql_permissions, stmts, details, denied, deny_reason, invoked,
          exit_code, http_status, output>>

-----------------------------------------------------------------------------
(* Bounds of the model *)

\* longest batch of statements the parser returns
MaxStmts == 2

\* most rules in the deny mapping
MaxDenyRules == 2

-----------------------------------------------------------------------------
(* Python strings *)

\* the elements of a list
Range(q) == {q[i] : i \in DOMAIN q}

UpperCase == <<"A","B","C","D","E","F","G","H","I","J","K","L","M",
               "N","O","P","Q","R","S","T","U","V","W","X","Y","Z">>
LowerCase == <<"a","b","c","d","e","f","g","h","i","j","k","l","m",
               "n","o","p","q","r","s","t","u","v","w","x","y","z">>

\* the lower case letter of each upper case letter, and the other way round
ToLower == [c \in Range(UpperCase) |->
               LowerCase[CHOOSE i \in DOMAIN UpperCase : UpperCase[i] = c]]
ToUpper == [c \in Range(LowerCase) |->
               UpperCase[CHOOSE i \in DOMAIN LowerCase : LowerCase[i] = c]]

\* str.lower() and str.upper() on one character
LowerChar(c) == IF c \in DOMAIN ToLower THEN ToLower[c] ELSE c
UpperChar(c) == IF c \in DOMAIN ToUpper THEN ToUpper[c] ELSE c

\* str.lower(), str.upper()
StrLower(s) == [i \in 1..Len(s) |-> LowerChar(s[i])]
StrUpper(s) == [i \in 1..Len(s) |-> UpperChar(s[i])]

\* s.split(".")[-1]: what follows the last dot, the whole string without one
LastSegment(s) ==
    LET dots == {i \in 1..Len(s) : s[i] = "."}
        last == IF dots = {} THEN 0
                ELSE CHOOSE i \in dots : \A j \in dots : j <= i
    IN  SubSeq(s, last + 1, Len(s))

\* s.strip('"'): drop every leading and trailing double quote
StripQuotes(s) ==
    LET keep == {i \in 1..Len(s) : s[i] # "\""}
    IN  IF keep = {} THEN <<>>
        ELSE SubSeq(s, CHOOSE i \in keep : \A j \in keep : i <= j,
                       CHOOSE i \in keep : \A j \in keep : j <= i)

\* ord(c) for the characters the identifiers are made of
Ord == [c \in Range(UpperCase) \cup Range(LowerCase) \cup {"\"", ".", "_"} |->
           IF c = "\"" THEN 34
           ELSE IF c = "." THEN 46
           ELSE IF c = "_" THEN 95
           ELSE IF c \in Range(UpperCase)
                THEN 64 + (CHOOSE i \in DOMAIN UpperCase : UpperCase[i] = c)
                ELSE 96 + (CHOOSE i \in DOMAIN LowerCase : LowerCase[i] = c)]
CodePoint(c) == Ord[c]

\* a < b for Python strings (code point order, a proper prefix is smaller)
StrLess(a, b) ==
    \E k \in 1..(Len(b)) :
        /\ \A j \in 1..(k - 1) : j <= Len(a) /\ a[j] = b[j]
        /\ k - 1 <= Len(a)
        /\ \/ k = Len(a) + 1
           \/ k <= Len(a) /\ CodePoint(a[k]) < CodePoint(b[k])

\* sorted(S) for a set of strings
RECURSIVE Sorted(_)
Sorted(S) ==
    IF S = {} THEN <<>>
    ELSE LET least == CHOOSE x \in S : \A y \in S \ {x} : StrLess(x, y)
         IN  <<least>> \o Sorted(S \ {least})

\* Python's None
None == <<"None">>

-----------------------------------------------------------------------------
(* normalize_table_name *)

\* a normalizer that forgets lower()
normalize_keeping_case(table) == StripQuotes(LastSegment(table))

normalize_table_name(table) == StripQuotes(LastSegment(StrLower(table)))

-----------------------------------------------------------------------------
(* Names, action keys and messages the inputs are built from *)

tok == <<"t","o","k">>
msg == <<"m","s","g">>
\* public."Tok"  and  "MSG"
TokQualified == <<"p",".","\"","T","o","k","\"">>
MsgQuoted == <<"\"","M","S","G","\"">>

all_ == <<"a","l","l">>
ALL_ == <<"A","L","L">>
select == <<"s","e","l","e","c","t">>
SELECT_ == <<"S","E","L","E","C","T">>
Select_ == <<"S","e","l","e","c","t">>
delete == <<"d","e","l","e","t","e">>

\* str(e) of a sqlglot ParseError, and of the AttributeError of None.key
ParseErrorText == <<"Invalid expression / Unexpected token">>
NoneKeyErrorText == <<"'NoneType' object has no attribute 'key'">>

-----------------------------------------------------------------------------
(* What sqlglot.parse returns: a list of expression trees, None for an     *)
(* empty statement.  A tree is reduced to what the extractor reads: its    *)
(* key, its CTE nodes and its Table nodes.  `genuine` records what a Table *)
(* node refers to in SQL (a stored table, or a CTE of the statement); the  *)
(* program never reads it.                                                  *)

Tree(k, c, t) == [expr |-> TRUE, key |-> k, ctes |-> c, tables |-> t]
NoneTree == [expr |-> FALSE, key |-> None, ctes |-> {}, tables |-> {}]
Cte(a) == [alias_or_name |-> a]
Table(n) == [name |-> n, genuine |-> TRUE]
CteRef(n) == [name |-> n, genuine |-> FALSE]

Trees ==
    { Tree(select, {}, {}),                                    \* SELECT 1
      Tree(select, {}, {Table(TokQualified)}),                 \* SELECT * FROM public."Tok"
      Tree(select, {}, {Table(tok), Table(msg)}),              \* SELECT .. FROM tok JOIN msg
      Tree(delete, {}, {Table(msg)}),                          \* DELETE FROM msg
      Tree(select, {Cte(tok)}, {Table(msg), CteRef(tok)}),     \* WITH tok AS (SELECT * FROM msg) SELECT * FROM tok
      Tree(select, {Cte(tok)}, {Table(tok), CteRef(tok)}),     \* WITH tok AS (SELECT * FROM tok) SELECT * FROM tok
      NoneTree }                                               \* an empty statement

RECURSIVE SeqsUpTo(_, _)
SeqsUpTo(S, n) ==
    IF n = 0 THEN {<<>>}
    ELSE LET shorter == SeqsUpTo(S, n - 1)
         IN  shorter \cup {Append(q, x) : q \in shorter, x \in S}

ParseOutcomes ==
    {[ok |-> FALSE, error |-> ParseErrorText, trees |-> <<>>]}
    \cup {[ok |-> TRUE, error |-> None, trees |-> q] : q \in SeqsUpTo(Trees, MaxStmts)}

-----------------------------------------------------------------------------
(* What get_context returns.  A JSON object is the list of its items       *)
(* (key, value) in document order; a value that is no object is "list".    *)

Dict(items) == [kind |-> "dict", items |-> items]
NotADict == [kind |-> "list", items |-> <<>>]

DenyRules ==
    { <<all_, <<tok>>>>,
      <<ALL_, <<tok>>>>,
      <<Select_, <<TokQualified, msg>>>> }

AllowRules ==
    << <<select, <<tok, msg>>>>,
       <<SELECT_, <<msg>>>>,
       <<all_, <<MsgQuoted>>>> >>

Keys(items) == {items[i][1] : i \in DOMAIN items}

DenyDicts ==
    {Dict(q) : q \in {r \in SeqsUpTo(DenyRules, MaxDenyRules) :
                          Cardinality(Keys(r)) = Len(r)}}

RECURSIVE SubSeqs(_)
SubSeqs(q) ==
    IF q = <<>> THEN {<<>>}
    ELSE LET rest == SubSeqs(Tail(q))
         IN  rest \cup {<<Head(q)>> \o r : r \in rest}

AllowDicts == {Dict(q) : q \in SubSeqs(AllowRules)}

Policy(a, d) == [kind |-> "dict", allow |-> a, deny |-> d]

Policies ==
    {Policy(a, d) : a \in AllowDicts, d \in DenyDicts}

\* objects whose "allow" or "deny" is no object
IllShapedPolicies ==
    { Policy(Dict(<<>>), NotADict),
      Policy(NotADict, Dict(<<>>)),
      Policy(NotADict, Dict(<< <<all_, <<tok>>>> >>)) }

\* None (no such context) and a JSON list
NonDictValues ==
    { [kind |-> "none", allow |-> NotADict, deny |-> NotADict],
      [kind |-> "list", allow |-> NotADict, deny |-> NotADict] }

-----------------------------------------------------------------------------
(* extract_sql_info_multi *)

Descriptor(stmt) ==
    [type   |-> StrUpper(stmt.key),
     tables |-> Sorted({t.name : t \in stmt.tables}),
     ctes   |-> Sorted({c.alias_or_name : c \in stmt.ctes}),
     error  |-> None]

ErrorDescriptor(e) == [type |-> None, tables |-> <<>>, ctes |-> <<>>, error |-> e]

\* an extractor that catches the failure of one statement and goes on
extract_per_statement(parsed) ==
    IF ~parsed.ok THEN <<ErrorDescriptor(parsed.error)>>
    ELSE [i \in DOMAIN parsed.trees |->
             IF parsed.trees[i].expr THEN Descriptor(parsed.trees[i])
             ELSE ErrorDescriptor(NoneKeyErrorText)]

extract_sql_info_multi(parsed) ==
    IF ~parsed.ok THEN <<ErrorDescriptor(parsed.error)>>
    ELSE IF \E i \in DOMAIN parsed.trees : ~parsed.trees[i].expr
         THEN <<ErrorDescriptor(NoneKeyErrorText)>>
         ELSE [i \in DOMAIN parsed.trees |-> Descriptor(parsed.trees[i])]

-----------------------------------------------------------------------------
(* process: the policy lookups and the decision of one statement *)

\* dict.get(key, []) on the items of a JSON object
DictGet(d, key) ==
    IF \E i \in DOMAIN d.items : d.items[i][1] = key
    THEN d.items[CHOOSE i \in DOMAIN d.items : d.items[i][1] = key][2]
    ELSE <<>>

\* real tables that still hold the CTE names
RealTablesWithCtes(tables, ctes) == tables

\* real_tables = [t for t in tables if t not in ctes]
RealTables(tables, ctes) ==
    LET NotCte(t) == t \notin Range(ctes)
    IN  SelectSeq(tables, NotCte)

\* a deny test that knows no wildcard
DenyAppliesVerbOnly(deny_action, stmt_type) ==
    StrLower(deny_action) = StrLower(stmt_type)

\* deny_action == "all" or deny_action.lower() == (stmt_type or "").lower()
DenyApplies(deny_action, stmt_type) ==
    \/ deny_action = all_
    \/ StrLower(deny_action) = StrLower(stmt_type)

\* {normalize_table_name(t) for t in deny_tables}
NormalizedSet(names) == {normalize_table_name(t) : t \in Range(names)}

\* the (deny_action, table) pairs the deny loops hit, in the order they hit them
RECURSIVE DenyHits(_, _, _)
DenyHits(items, stmt_type, real_tables) ==
    IF items = <<>> THEN <<>>
    ELSE LET deny_action == Head(items)[1]
             deny_tables_normalized == NormalizedSet(Head(items)[2])
             Hit(table) == normalize_table_name(table) \in deny_tables_normalized
             hit == SelectSeq(real_tables, Hit)
             here == IF DenyApplies(deny_action, stmt_type)
                     THEN [i \in DOMAIN hit |-> <<deny_action, hit[i]>>]
                     ELSE <<>>
         IN  here \o DenyHits(Tail(items), stmt_type, real_tables)

\* f"Denied by deny.{deny_action} for table {table}"
DeniedReason(deny_action, table) ==
    <<"Denied by deny.">> \o deny_action \o <<" for table ">> \o table

\* an allowed set that leaves out allow["all"]
AllowedTablesVerbOnly(allow, stmt_type) ==
    NormalizedSet(DictGet(allow, StrLower(stmt_type)))

\* allowed_tables_normalized
AllowedTablesNormalized(allow, stmt_type) ==
    NormalizedSet(DictGet(allow, StrLower(stmt_type)))
        \cup NormalizedSet(DictGet(allow, all_))

\* the tables the allow loop rejects, in the order it meets them
NotAllowedTables(allow, stmt_type, real_tables) ==
    LET Rejected(table) ==
            normalize_table_name(table) \notin AllowedTablesNormalized(allow, stmt_type)
    IN  SelectSeq(real_tables, Rejected)

\* f"Table {table} not allowed for {stmt_type}"
NotAllowedReason(table, stmt_type) ==
    <<"Table ">> \o table \o <<" not allowed for ">> \o stmt_type

Last(q) == q[Len(q)]

\* stmt_detail of the parse error branch.  list(set) gives the CTE names in
\* no stated order: the detail keeps them as a set.
ErrorDetail(stmt) ==
    [type |-> None, tables |-> stmt.tables, ctes |-> Range(stmt.ctes),
     allowed |-> FALSE, denied |-> TRUE, reason |-> stmt.error]

\* stmt_detail of a parsed statement after the deny and the allow loops
StmtDetail(stmt, allow, deny) ==
    LET real_tables == RealTables(stmt.tables, stmt.ctes)
        hits == DenyHits(deny.items, stmt.type, real_tables)
        rejected == IF hits = <<>>
                    THEN NotAllowedTables(allow, stmt.type, real_tables)
                    ELSE <<>>
    IN  [type    |-> stmt.type,
         tables  |-> stmt.tables,
         ctes    |-> Range(stmt.ctes),
         allowed |-> hits = <<>> /\ rejected = <<>>,
         denied  |-> hits # <<>>,
         reason  |-> IF hits # <<>>
                     THEN DeniedReason(Last(hits)[1], Last(hits)[2])
                     ELSE IF rejected # <<>>
                          THEN NotAllowedReason(Last(rejected), stmt.type)
                          ELSE None]

\* deny.items() and allow.get(...) raise AttributeError on a value that is no
\* object; the allow lookup runs only for a statement the deny loops left alone
StmtRaises(stmt, allow, deny) ==
    \/ deny.kind # "dict"
    \/ /\ DenyHits(deny.items, stmt.type, RealTables(stmt.tables, stmt.ctes)) = <<>>
       /\ allow.kind # "dict"

\* a denied flag that the next statement overwrites
DeniedAfterOverwritten(den, stmt_detail) == ~stmt_detail.allowed

\* a deny_reason that keeps the first violation
ReasonAfterKeepingFirst(why, stmt_detail) ==
    IF stmt_detail.allowed \/ why # None THEN why ELSE stmt_detail.reason

\* denied after a statement: set by every statement that is not allowed
DeniedAfter(den, stmt_detail) == den \/ ~stmt_detail.allowed

\* deny_reason after a statement: overwritten by every statement that is not allowed
ReasonAfter(why, stmt_detail) ==
    IF stmt_detail.allowed THEN why ELSE stmt_detail.reason

\* the value process returns after the loop
Result(ds, den, why) ==
    [allowed |-> ~den,
     details |-> ds,
     reason  |-> IF den THEN why ELSE <<"All statements allowed">>]

\* the value process returns without a sql
NoSqlResult == [allowed |-> FALSE, reason |-> <<"No SQL provided">>]

\* the loop of process from the statement at the head of descs on; it stops
\* where a statement raises
RECURSIVE Loop(_, _, _, _)
Loop(descs, allowed_by, denied_by, sofar) ==
    IF descs = <<>> THEN sofar
    ELSE LET stmt == Head(descs)
             stmt_detail == IF stmt.type = None THEN ErrorDetail(stmt)
                            ELSE StmtDetail(stmt, allowed_by, denied_by)
         IN  IF stmt.type # None /\ StmtRaises(stmt, allowed_by, denied_by)
             THEN [sofar EXCEPT !.raised = TRUE]
             ELSE Loop(Tail(descs), allowed_by, denied_by,
                       [raised      |-> FALSE,
                        details     |-> Append(sofar.details, stmt_detail),
                        denied      |-> DeniedAfter(sofar.denied, stmt_detail),
                        deny_reason |-> ReasonAfter(sofar.deny_reason, stmt_detail)])

\* details = [], denied = False, deny_reason = None
LoopStart == [raised |-> FALSE, details |-> <<>>, denied |-> FALSE, deny_reason |-> None]

-----------------------------------------------------------------------------
(* The self-test of validate_sql.py: its policy and its 21 cases, each     *)
(* with what sqlglot.parse gives for its sql                               *)

support_tickets ==
    <<"s","u","p","p","o","r","t","_","t","i","c","k","e","t","s">>
support_messages ==
    <<"s","u","p","p","o","r","t","_","m","e","s","s","a","g","e","s">>
integration_tokens ==
    <<"i","n","t","e","g","r","a","t","i","o","n","_","t","o","k","e","n","s">>
Integration_Tokens ==
    <<"I","n","t","e","g","r","a","t","i","o","n","_","T","o","k","e","n","s">>
recent_tickets ==
    <<"r","e","c","e","n","t","_","t","i","c","k","e","t","s">>
valid_tokens ==
    <<"v","a","l","i","d","_","t","o","k","e","n","s">>
tokens == <<"t","o","k","e","n","s">>
updated == <<"u","p","d","a","t","e","d">>
deleted == <<"d","e","l","e","t","e","d">>
messages == <<"m","e","s","s","a","g","e","s">>
update == <<"u","p","d","a","t","e">>
insert == <<"i","n","s","e","r","t">>

TestPolicy ==
    Policy(Dict(<< <<select, <<support_tickets, support_messages>>>>,
                   <<update, <<support_messages>>>> >>),
           Dict(<< <<all_, <<integration_tokens>>>> >>))

Parsed(trees) == [ok |-> TRUE, error |-> None, trees |-> trees]
Case(trees, expect) == [parsed |-> Parsed(trees), expect |-> expect]

TestCases ==
    << Case(<<Tree(select, {}, {Table(support_tickets)})>>, TRUE),
       Case(<<Tree(select, {}, {Table(integration_tokens)})>>, FALSE),
       Case(<<Tree(update, {}, {Table(support_messages)})>>, TRUE),
       Case(<<Tree(update, {}, {Table(support_tickets)})>>, FALSE),
       Case(<<Tree(delete, {}, {Table(support_tickets)})>>, FALSE),
       Case(<<Tree(select, {}, {Table(support_tickets)}),
              Tree(delete, {}, {Table(integration_tokens)})>>, FALSE),
       Case(<<Tree(select, {}, {Table(support_tickets), Table(support_messages)})>>, TRUE),
       Case(<<Tree(select, {}, {Table(support_messages), Table(support_tickets)})>>, TRUE),
       Case(<<Tree(select, {Cte(recent_tickets)},
                   {Table(support_tickets), CteRef(recent_tickets),
                    Table(support_messages)})>>, TRUE),
       Case(<<Tree(update, {}, {Table(support_tickets), Table(support_messages)})>>, FALSE),
       Case(<<Tree(delete, {}, {Table(support_messages), Table(support_tickets)})>>, FALSE),
       Case(<<Tree(insert, {}, {Table(integration_tokens), Table(support_messages)})>>, FALSE),
       Case(<<Tree(update, {}, {Table(support_tickets)}),
              Tree(delete, {}, {Table(integration_tokens)})>>, FALSE),
       Case(<<Tree(select, {Cte(valid_tokens)},
                   {Table(integration_tokens), Table(support_tickets),
                    Table(support_messages), CteRef(valid_tokens)})>>, FALSE),
       Case(<<Tree(select, {Cte(tokens)},
                   {Table(integration_tokens), CteRef(tokens)})>>, FALSE),
       Case(<<Tree(select, {Cte(updated)},
                   {Table(integration_tokens), CteRef(updated)})>>, FALSE),
       Case(<<Tree(select, {Cte(deleted)},
                   {Table(integration_tokens), CteRef(deleted)})>>, FALSE),
       Case(<<Tree(select, {Cte(tokens)},
                   {Table(integration_tokens), CteRef(tokens),
                    Table(support_messages)})>>, FALSE),
       Case(<<Tree(select, {Cte(messages)},
                   {Table(support_messages), CteRef(messages)})>>, TRUE),
       Case(<<Tree(select, {}, {Table(Integration_Tokens)})>>, FALSE),
       Case(<<Tree(select, {}, {Table(integration_tokens)})>>, FALSE) >>

-----------------------------------------------------------------------------
(* The run: a request, or the self-test *)

\* no exit code, no response yet
NoCode == <<>>
NoOutput == [allowed |-> FALSE, reason |-> None]
NoParse == [ok |-> FALSE, error |-> None, trees |-> <<>>]
NoPolicy == [kind |-> "unset", allow |-> NotADict, deny |-> NotADict]

Init ==
    /\ mode \in {"cli", "uds"}
    /\ self_test \in (IF mode = "cli" THEN BOOLEAN ELSE {FALSE})
    /\ pc = "start"
    /\ input_is_dict = FALSE
    /\ has_sql = FALSE
    /\ summary = <<>>
    /\ statements = NoParse
    /\ sql_permissions = NoPolicy
    /\ stmts = <<>>
    /\ details = <<>>
    /\ denied = FALSE
    /\ deny_reason = None
    /\ invoked = FALSE
    /\ exit_code = NoCode
    /\ http_status = NoCode
    /\ output = NoOutput

\* the request ends as a failure: sys.exit(code) or an uncaught exception
\* (both exit codes 1 or 2 as given) / the 500 response
Fail(code) ==
    /\ pc' = "done"
    /\ exit_code' = IF mode = "cli" THEN <<code>> ELSE NoCode
    /\ http_status' = IF mode = "uds" THEN <<500>> ELSE NoCode
    /\ output' = NoOutput

\* the result goes out: print(json.dumps(result)) / web.json_response(result)
Succeed(result) ==
    /\ pc' = "done"
    /\ exit_code' = IF mode = "cli" THEN <<0>> ELSE NoCode
    /\ http_status' = IF mode = "uds" THEN <<200>> ELSE NoCode
    /\ output' = result

\* the self-test starts (the block under `"--test" in sys.argv`, which runs
\* before main and instead of it): its policy is set
SelfTestBegin ==
    /\ pc = "start"
    /\ self_test
    /\ sql_permissions' = TestPolicy
    /\ pc' = "test"
    /\ UNCHANGED <<mode, self_test, input_is_dict, has_sql, summary, statements,
                   stmts, details, denied, deny_reason, invoked, exit_code,
                   http_status, output>>

\* the self-test runs its next case through process and prints the result
SelfTestCase ==
    /\ pc = "test"
    /\ Len(summary) < Len(TestCases)
    /\ LET case == TestCases[Len(summary) + 1]
           descs == extract_sql_info_multi(case.parsed)
           end == Loop(descs, sql_permissions.allow, sql_permissions.deny,
                       LoopStart)
           result == Result(end.details, end.denied, end.deny_reason)
       IN  /\ statements' = case.parsed
           /\ stmts' = descs
           /\ details' = end.details
           /\ denied' = end.denied
           /\ deny_reason' = end.deny_reason
           /\ output' = result
           /\ summary' = Append(summary,
                                [passed   |-> result.allowed = case.expect,
                                 expected |-> case.expect,
                                 actual   |-> result.allowed])
    /\ input_is_dict' = TRUE
    /\ has_sql' = TRUE
    /\ invoked' = TRUE
    /\ UNCHANGED <<mode, self_test, pc, sql_permissions, exit_code, http_status>>

\* the self-test prints its summary and ends with sys.exit(0)
SelfTestExit ==
    /\ pc = "test"
    /\ Len(summary) = Len(TestCases)
    /\ pc' = "done"
    /\ exit_code' = <<0>>
    /\ UNCHANGED <<mode, self_test, input_is_dict, has_sql, summary, statements,
                   sql_permissions, stmts, details, denied, deny_reason,
                   invoked, http_status, output>>

\* no argument, one that is no JSON, or one that is no JSON object
DecodeFails ==
    /\ pc = "start"
    /\ ~self_test
    /\ Fail(1)
    /\ UNCHANGED <<mode, self_test, input_is_dict, has_sql, summary, statements,
                   sql_permissions, stmts, details, denied, deny_reason, invoked>>

\* the argument decodes; inputArgs is an object with a sql or with none, or
\* it is no object (null, a list, a string)
DecodeArgs ==
    /\ pc = "start"
    /\ ~self_test
    /\ \E d \in BOOLEAN, s \in BOOLEAN :
          /\ (~d) => ~s
          /\ input_is_dict' = d
          /\ has_sql' = s
    /\ pc' = "decoded"
    /\ UNCHANGED <<mode, self_test, summary, statements, sql_permissions, stmts,
                   details, denied, deny_reason, invoked, exit_code,
                   http_status, output>>

\* get_context raises
GetContextFails ==
    /\ pc = "decoded"
    /\ Fail(1)
    /\ UNCHANGED <<mode, self_test, input_is_dict, has_sql, summary, statements,
                   sql_permissions, stmts, details, denied, deny_reason, invoked>>

\* get_context returns a value that is no dict
GetContextNotDict ==
    /\ pc = "decoded"
    /\ \E v \in NonDictValues : sql_permissions' = v
    /\ Fail(1)
    /\ UNCHANGED <<mode, self_test, input_is_dict, has_sql, summary, statements,
                   stmts, details, denied, deny_reason, invoked>>

\* get_context returns a dict, which is injected into input_args
GetContext ==
    /\ pc = "decoded"
    /\ input_is_dict
    /\ \E v \in Policies \cup IllShapedPolicies : sql_permissions' = v
    /\ pc' = "fetched"
    /\ UNCHANGED <<mode, self_test, input_is_dict, has_sql, summary, statements,
                   stmts, details, denied, deny_reason, invoked, exit_code,
                   http_status, output>>

\* get_context returns a dict, and input_args["sql_permissions"] = ... raises
\* TypeError on an inputArgs that is no object: outside every try in main
\* (exit code 1), inside the try of handle_post (500)
InjectFails ==
    /\ pc = "decoded"
    /\ ~input_is_dict
    /\ \E v \in Policies \cup IllShapedPolicies : sql_permissions' = v
    /\ Fail(1)
    /\ UNCHANGED <<mode, self_test, input_is_dict, has_sql, summary, statements,
                   stmts, details, denied, deny_reason, invoked>>

\* process without a sql: the early return, which main prints.  (The return
\* for a missing sql_permissions cannot happen here: main injects a dict.)
ProcessNoSql ==
    /\ pc = "fetched"
    /\ ~has_sql
    /\ invoked' = TRUE
    /\ Succeed(NoSqlResult)
    /\ UNCHANGED <<mode, self_test, input_is_dict, has_sql, summary, statements,
                   sql_permissions, stmts, details, denied, deny_reason>>

\* process with a sql, inside main's try: it returns and the result goes out,
\* or it raises in its loop and main exits with 2 (the service answers 500)
Process ==
    /\ pc = "fetched"
    /\ has_sql
    /\ \E parsed \in ParseOutcomes :
          LET descs == extract_sql_info_multi(parsed)
              end == Loop(descs, sql_permissions.allow, sql_permissions.deny,
                          LoopStart)
          IN  /\ statements' = parsed
              /\ stmts' = descs
              /\ details' = end.details
              /\ denied' = end.denied
              /\ deny_reason' = end.deny_reason
              /\ IF end.raised
                 THEN Fail(2)
                 ELSE Succeed(Result(end.details, end.denied, end.deny_reason))
    /\ invoked' = TRUE
    /\ UNCHANGED <<mode, self_test, input_is_dict, has_sql, summary,
                   sql_permissions>>

Next ==
    \/ SelfTestBegin
    \/ SelfTestCase
    \/ SelfTestExit
    \/ DecodeFails
    \/ DecodeArgs
    \/ GetContextFails
    \/ GetContextNotDict
    \/ GetContext
    \/ InjectFails
    \/ ProcessNoSql
    \/ Process

Spec == Init /\ [][Next]_vars

-----------------------------------------------------------------------------
(* Vocabulary of the properties *)

allow == sql_permissions.allow
deny == sql_permissions.deny

\* process returned the result of a batch and it went out: the answer to a
\* request, or the printed result of the self-test case last run
Evaluated ==
    /\ invoked /\ has_sql
    /\ \/ pc = "test"
       \/ pc = "done" /\ (exit_code = <<0>> \/ http_status = <<200>>)

\* statement k was parsed (its descriptor has a type)
ParsedAt(k) == stmts[k].type # None

\* the real tables of statement k: tables minus ctes
RealNames(k) == {t \in Range(stmts[k].tables) : t \notin Range(stmts[k].ctes)}

\* the names a mapping lists under a key written exactly so (none without the key)
Listed(d, key) ==
    UNION {Range(d.items[i][2]) : i \in {j \in DOMAIN d.items : d.items[j][1] = key}}

\* deny rule i is keyed `all` or by the type of statement k
RuleApplies(i, k) ==
    \/ deny.items[i][1] = all_
    \/ StrLower(deny.items[i][1]) = StrLower(stmts[k].type)

\* name t normalizes to a member of deny rule i
RuleNames(i, t) ==
    \E d \in Range(deny.items[i][2]) :
        normalize_table_name(t) = normalize_table_name(d)

\* some applying deny rule names a real table of statement k
DenyRuleCovers(k) ==
    \E i \in DOMAIN deny.items :
        RuleApplies(i, k) /\ \E t \in RealNames(k) : RuleNames(i, t)

\* normalize(allow[type]) union normalize(allow["all"])
AllowedSet(k) ==
    {normalize_table_name(n) :
        n \in Listed(allow, StrLower(stmts[k].type)) \cup Listed(allow, all_)}

Max(S) == CHOOSE x \in S : \A y \in S : y <= x

-----------------------------------------------------------------------------
\* C1: deny overrides allow.  A parsed statement with a real table that
\* normalizes to a member of a deny rule keyed `all` or by the statement's
\* type is decided allowed=false, denied=true, and the overall result is
\* allowed=false, also when allow lists that table.
C1_DenyOverridesAllow ==
    \A k \in DOMAIN details :
        (ParsedAt(k) /\ DenyRuleCovers(k)) =>
            /\ ~details[k].allowed
            /\ details[k].denied
            /\ denied
            /\ Evaluated => ~output.allowed

\* a denied statement whose denied table is listed under allow[type] too
C1_Witness ==
    /\ Evaluated
    /\ ~output.allowed
    /\ \E k \in DOMAIN details :
          /\ ParsedAt(k)
          /\ details[k].denied
          /\ \E t \in RealNames(k) :
                /\ normalize_table_name(t) \in
                      {normalize_table_name(n) :
                          n \in Listed(allow, StrLower(stmts[k].type))}
                /\ normalize_table_name(t) \in
                      {normalize_table_name(n) : n \in Listed(deny, all_)}

-----------------------------------------------------------------------------
\* the names of the Table nodes of statement k that refer to stored tables
GenuineNames(k) ==
    {n.name : n \in {m \in statements.trees[k].tables : m.genuine}}

\* C2: CTE aliases are exempt, genuine table references are not.  The
\* decision of a parsed statement is the one its genuine table references
\* give: denied iff an applying deny rule names one of them, allowed iff none
\* is denied and all are in the allowed set, whatever CTE aliases the
\* statement defines, also an alias of the same name.
C2_GenuineReferencesChecked ==
    \A k \in DOMAIN details :
        ParsedAt(k) =>
            LET deniedG == \E i \in DOMAIN deny.items :
                              RuleApplies(i, k)
                              /\ \E g \in GenuineNames(k) : RuleNames(i, g)
                allowedG == \A g \in GenuineNames(k) :
                              normalize_table_name(g) \in AllowedSet(k)
            IN  /\ details[k].denied = deniedG
                /\ details[k].allowed = (~deniedG /\ allowedG)

-----------------------------------------------------------------------------
\* C3: the allow pass is default-deny.  A parsed statement that no deny rule
\* matched is allowed iff each of its real tables normalizes into
\* normalize(allow[type]) union normalize(allow["all"]), an absent key
\* counting as the empty set.
C3_AllowDefaultDeny ==
    \A k \in DOMAIN details :
        (ParsedAt(k) /\ ~DenyRuleCovers(k)) =>
            (details[k].allowed <=>
                \A t \in RealNames(k) : normalize_table_name(t) \in AllowedSet(k))

\* a statement with a real table and no allow key at all is refused, next to
\* a statement with a real table that the allow set admits
C3_Witness ==
    /\ Evaluated
    /\ \E k \in DOMAIN details :
          /\ ParsedAt(k) /\ ~DenyRuleCovers(k) /\ RealNames(k) # {}
          /\ Listed(allow, StrLower(stmts[k].type)) = {}
          /\ Listed(allow, all_) = {}
          /\ ~details[k].allowed
    /\ \E j \in DOMAIN details :
          /\ ParsedAt(j) /\ ~DenyRuleCovers(j) /\ RealNames(j) # {}
          /\ details[j].allowed

-----------------------------------------------------------------------------
\* a mapping with every action key in lower case
LowerKeys(d) ==
    [kind |-> d.kind,
     items |-> [i \in DOMAIN d.items |-> <<StrLower(d.items[i][1]), d.items[i][2]>>]]

\* no two keys of the mapping differ in letter case only
KeysStayDistinct(d) ==
    Cardinality({StrLower(key) : key \in Keys(d.items)}) = Len(d.items)

\* C4: action keys are case-insensitive in allow and in deny.  Writing the
\* keys of the policy in another letter case (here: all in lower case) gives
\* every statement the same decision.
C4_KeysCaseInsensitive ==
    \A k \in DOMAIN details :
        (ParsedAt(k) /\ KeysStayDistinct(allow) /\ KeysStayDistinct(deny)) =>
            LET other == StmtDetail(stmts[k], LowerKeys(allow), LowerKeys(deny))
            IN  /\ details[k].allowed = other.allowed
                /\ details[k].denied = other.denied

-----------------------------------------------------------------------------
\* C5: the overall allowed is the AND of the allowed flags of the decisions
\* in details, one decision per descriptor.
C5_OverallIsConjunction ==
    Evaluated =>
        /\ Len(output.details) = Len(stmts)
        /\ output.allowed = (\A k \in DOMAIN output.details : output.details[k].allowed)

\* a batch whose first statement is allowed and whose second is not
C5_Witness ==
    /\ Evaluated
    /\ Len(output.details) = 2
    /\ output.details[1].allowed
    /\ ~output.details[2].allowed
    /\ ~output.allowed

-----------------------------------------------------------------------------
\* parsing the batch failed: parse raised, or a statement came back as None
ParseFailed ==
    /\ invoked /\ has_sql
    /\ \/ ~statements.ok
       \/ \E i \in DOMAIN statements.trees : ~statements.trees[i].expr

\* C6: a parse failure is a total denial.  The extractor gives exactly one
\* descriptor with the error set, no type, no tables and no ctes; its
\* decision is allowed=false, denied=true, reason=the error; no policy, of
\* whatever content, is consulted for it; the overall result is
\* allowed=false.
C6_ParseFailureDenies ==
    ParseFailed =>
        /\ Len(stmts) = 1
        /\ stmts[1].type = None
        /\ stmts[1].error # None
        /\ stmts[1].tables = <<>> /\ stmts[1].ctes = <<>>
        /\ \A k \in DOMAIN details :
              details[k] = [type |-> None, tables |-> <<>>, ctes |-> {},
                            allowed |-> FALSE, denied |-> TRUE,
                            reason |-> stmts[1].error]
        /\ pc = "done" =>
              /\ Evaluated
              /\ Len(output.details) = 1
              /\ ~output.allowed
              /\ output.reason = stmts[1].error

\* a batch with an empty statement after a good one, under a policy whose
\* deny is no mapping
C6_Witness ==
    /\ Evaluated
    /\ ParseFailed
    /\ statements.ok /\ Len(statements.trees) = 2 /\ statements.trees[1].expr
    /\ deny.kind # "dict"
    /\ ~output.allowed

-----------------------------------------------------------------------------
\* C7 as stated: every statement whose real tables are empty is allowed.
C7_EmptyRealTablesAllowed ==
    \A k \in DOMAIN details : RealNames(k) = {} => details[k].allowed

\* C7 amended: every parsed statement whose real tables are empty is decided
\* allowed=true, denied=false, with no reason, whatever the policy lists.
C7_ParsedEmptyRealTablesAllowed ==
    \A k \in DOMAIN details :
        (ParsedAt(k) /\ RealNames(k) = {}) =>
            /\ details[k].allowed
            /\ ~details[k].denied
            /\ details[k].reason = None

\* a statement whose only table name is a CTE alias, allowed under a policy
\* that denies that name and allows nothing
C7_Witness ==
    /\ Evaluated
    /\ \E k \in DOMAIN details :
          /\ ParsedAt(k)
          /\ stmts[k].tables # <<>>
          /\ RealNames(k) = {}
          /\ details[k].allowed
          /\ \E i \in DOMAIN deny.items :
                RuleApplies(i, k) /\ \E t \in Range(stmts[k].tables) : RuleNames(i, t)
          /\ allow.items = <<>>

-----------------------------------------------------------------------------
\* the reason the last violation of statement k gives
ExpectedReason(k) ==
    IF ~ParsedAt(k) THEN stmts[k].error
    ELSE IF DenyRuleCovers(k)
    THEN LET i == Max({r \in DOMAIN deny.items :
                          RuleApplies(r, k) /\ \E t \in RealNames(k) : RuleNames(r, t)})
             j == Max({p \in DOMAIN stmts[k].tables :
                          /\ stmts[k].tables[p] \in RealNames(k)
                          /\ RuleNames(i, stmts[k].tables[p])})
         IN  <<"Denied by deny.">> \o deny.items[i][1]
                 \o <<" for table ">> \o stmts[k].tables[j]
    ELSE LET j == Max({p \in DOMAIN stmts[k].tables :
                          /\ stmts[k].tables[p] \in RealNames(k)
                          /\ normalize_table_name(stmts[k].tables[p]) \notin AllowedSet(k)})
         IN  <<"Table ">> \o stmts[k].tables[j]
                 \o <<" not allowed for ">> \o stmts[k].type

\* C8: the overall reason is the last violation in document order: the
\* reason of the last decision that is not allowed, which is the reason of
\* that statement's last matching deny rule and table, or of its last table
\* that is not allowed; with every statement allowed it is
\* "All statements allowed".
C8_LastViolationWins ==
    Evaluated =>
        LET bad == {k \in DOMAIN output.details : ~output.details[k].allowed}
        IN  IF bad = {}
            THEN output.reason = <<"All statements allowed">>
            ELSE /\ output.reason = output.details[Max(bad)].reason
                 /\ \A k \in bad : output.details[k].reason = ExpectedReason(k)

\* two refused statements with different reasons, the second one denied by
\* the second of two matching deny rules
C8_Witness ==
    /\ Evaluated
    /\ Len(output.details) = 2
    /\ ~output.details[1].allowed
    /\ ~output.details[2].allowed
    /\ output.details[1].reason # output.details[2].reason
    /\ output.reason = output.details[2].reason
    /\ Cardinality({r \in DOMAIN deny.items :
                       RuleApplies(r, 2) /\ \E t \in RealNames(2) : RuleNames(r, t)}) = 2
    /\ Cardinality(RealNames(2)) = 2

-----------------------------------------------------------------------------
\* the policy is a mapping whose allow and deny are mappings
WellFormedPolicy ==
    sql_permissions.kind = "dict" /\ allow.kind = "dict" /\ deny.kind = "dict"

\* the request ended as a failure with this exit code (cli) or with 500 (uds)
FailedWith(code) ==
    /\ pc = "done"
    /\ output = NoOutput
    /\ mode = "cli" => exit_code = <<code>>
    /\ mode = "uds" => http_status = <<500>>

\* C9: request-level failures abort before evaluation.  For a request (a
\* run that is not the self-test), in both the command line tool and the
\* service: the evaluator runs only once the argument decoded and the policy
\* fetch returned a well-formed policy mapping; when the argument is missing
\* or malformed, the fetch fails, or the policy is missing or malformed,
\* nothing is evaluated, nothing goes to the success channel and the request
\* fails with exit code 1 / a 500 response.
C9_MalformedPolicyAborts ==
    ~self_test =>
        /\ invoked => WellFormedPolicy
        /\ (pc = "done" /\ ~invoked) => FailedWith(1)
        /\ (pc = "done" /\ ~WellFormedPolicy) =>
              (~invoked /\ details = <<>> /\ FailedWith(1))

-----------------------------------------------------------------------------
\* the ways of writing one name: letter case, double quotes, a schema prefix
Capitalized(s) == [i \in DOMAIN s |-> IF i = 1 THEN UpperChar(s[i]) ELSE s[i]]
Quoted(s) == <<"\"">> \o s \o <<"\"">>
Qualified(schema, s) == schema \o <<".">> \o s
Forms(base) ==
    LET cased == {base, StrUpper(base), Capitalized(base)}
        quoted == cased \cup {Quoted(c) : c \in cased}
    IN  quoted
          \cup {Qualified(<<"p">>, q) : q \in quoted}
          \cup {Qualified(Quoted(<<"P">>), q) : q \in quoted}

\* x and y differ only in schema prefix, letter case and surrounding quotes
NameForms == {Forms(base) : base \in {tok, msg}}
SameName(x, y) == \E forms \in NameForms : x \in forms /\ y \in forms

\* the names the policy lists and the statements refer to
NamesInUse ==
    UNION {Range(allow.items[i][2]) : i \in DOMAIN allow.items}
      \cup UNION {Range(deny.items[i][2]) : i \in DOMAIN deny.items}
      \cup UNION {Range(stmts[k].tables) : k \in DOMAIN stmts}

\* C10: normalization is case-, quote- and schema-insensitive, idempotent,
\* and applied to both sides of every comparison: two ways of writing one name
\* normalize to the same canonical name, so a deny rule matches a real table
\* written in another of these ways, and a statement whose real tables are
\* all allow-listed in some way of writing is allowed.
C10_NormalizationInsensitive ==
    /\ \A x \in NamesInUse :
          /\ normalize_table_name(normalize_table_name(x)) = normalize_table_name(x)
          /\ \A y \in NamesInUse :
                SameName(x, y) => normalize_table_name(x) = normalize_table_name(y)
    /\ \A k \in DOMAIN details :
          ParsedAt(k) =>
              /\ (\E i \in DOMAIN deny.items :
                     /\ RuleApplies(i, k)
                     /\ \E t \in RealNames(k) :
                           \E d \in Range(deny.items[i][2]) : SameName(d, t))
                 => details[k].denied
              /\ (/\ ~details[k].denied
                  /\ \A t \in RealNames(k) :
                        \E a \in Listed(allow, StrLower(stmts[k].type))
                                   \cup Listed(allow, all_) : SameName(a, t))
                 => details[k].allowed

\* public."Tok" is denied by a rule that says tok, and msg is allowed by a
\* rule that says "MSG"
C10_Witness ==
    /\ Evaluated
    /\ \E k \in DOMAIN details :
          /\ ParsedAt(k)
          /\ details[k].denied
          /\ \E t \in RealNames(k) : \E i \in DOMAIN deny.items :
                /\ RuleApplies(i, k)
                /\ \E d \in Range(deny.items[i][2]) : d # t /\ SameName(d, t)
    /\ \E k \in DOMAIN details :
          /\ ParsedAt(k)
          /\ details[k].allowed
          /\ RealNames(k) # {}
          /\ \A t \in RealNames(k) :
                /\ t \notin Listed(allow, StrLower(stmts[k].type)) \cup Listed(allow, all_)
                /\ \E a \in Listed(allow, all_) : SameName(a, t)

=============================================================================
